---- MODULE Spec2Model ----
(***************************************************************************)
(* A model of zebra/path.py of frc_path_viewer: Match._scan_path,          *)
(* Match.__init__, and the Competitions index with its queries.            *)
(*                                                                         *)
(* Python values are encoded as follows.                                   *)
(*   - An optional value (a value that may be None) is a set with at most  *)
(*     one element: None is {} and a present value v is {v}.               *)
(*   - A Python list is a TLA+ sequence.  Python indices are 0-based, so   *)
(*     the Python element s[t] is the TLA+ element s[t + 1].               *)
(*   - A call that raises is a result whose status names the exception.    *)
(***************************************************************************)
EXTENDS Integers, Sequences, FiniteSets, TLC

VARIABLES
    pc,     \* position of the run: which call is about to happen / has happened
    xs,     \* _scan_path: argument xs
    ys,     \* _scan_path: argument ys
    scan,       \* _scan_path: the returned dict, or the exception raised
    match_json, \* Match.__init__: argument match_json (a decoded line)
    zmatch,     \* Match.__init__: the constructed Match, or the exception raised
    file,       \* Competitions: the lines of the JSONL file
    zc,         \* Competitions: the constructed object, or the exception raised
    result,     \* Competitions: the outcome of the latest query
    tba,        \* download_match: what The Blue Alliance answers, per event
    max_no_path_matches,    \* download_match: argument max_no_path_matches
    dl,         \* download_match: the locals of _match_path_data
    zfile,      \* download_match: the lines written to the file so far
    ifile,      \* filter_by_event: the lines of input_file
    event_key,  \* filter_by_event: argument event_key
    ofile,      \* filter_by_event: the lines written to output_file, and how the call ended
    vdata,      \* ZebraViewer: the matches of self.data, in file order
    viewer      \* ZebraViewer: the attributes of the viewer and of its widgets

vars ==
    <<pc, xs, ys, scan, match_json, zmatch, file, zc, result,
      tba, max_no_path_matches, dl, zfile, ifile, event_key, ofile,
      vdata, viewer>>

scanVars == <<xs, ys, scan>>

matchVars == <<match_json, zmatch>>

compVars == <<file, zc, result>>

dlVars == <<tba, max_no_path_matches, dl, zfile>>

filterVars == <<ifile, event_key, ofile>>

viewerVars == <<vdata, viewer>>

----------------------------------------------------------------------------
(* Optional values and small helpers *)

None == {}

Some(v) == {v}

The(o) == CHOOSE v \in o : TRUE

Min(a, b) == IF a <= b THEN a ELSE b

\* All sequences over S of length 0..n
SeqsUpTo(S, n) == UNION {[1..k -> S] : k \in 0..n}

----------------------------------------------------------------------------
(* Bounds of the model *)

\* longest path (number of samples) given to _scan_path
MaxLen == 4

\* coordinate values of the samples; a sample may also be None
XCoords == {5, 6}

YCoords == {1, 2}

Cells(C) == {None} \cup {Some(c) : c \in C}

----------------------------------------------------------------------------
(* Match._scan_path, zebra/path.py:51-73 *)

\* a slip of all(...) into any(...): an empty path is no longer "all None"
AnyNone(s) == \E i \in 1..Len(s) : s[i] = None

\* all([x is None for x in s])
AllNone(s) == \A i \in 1..Len(s) : s[i] = None

\* number of pairs produced by zip(a, b)
ZipLen(a, b) == Min(Len(a), Len(b))

\* np.flip(s)
Flip(s) == [i \in 1..Len(s) |-> s[Len(s) + 1 - i]]

\* a slip of the test on line 58: only the x coordinate is looked at
MissingCoordsXOnly(a, b) ==
    SelectSeq([i \in 1..ZipLen(a, b) |-> i - 1], LAMBDA t : a[t + 1] = None)

\* the 0-based indices t of zip(a, b) at which either coordinate is None, ascending
MissingCoords(a, b) ==
    SelectSeq([i \in 1..ZipLen(a, b) |-> i - 1],
              LAMBDA t : a[t + 1] = None \/ b[t + 1] = None)

\* the 0-based indices t of zip(a, b) at which both coordinates are present
BothPresent(a, b) ==
    {t \in 0..(ZipLen(a, b) - 1) : a[t + 1] # None /\ b[t + 1] # None}

SetMin(S) == CHOOSE m \in S : \A k \in S : m <= k

\* first loop (lines 61-64): None when the loop ends without binding start
ScanStart(a, b) ==
    IF BothPresent(a, b) = {} THEN None
    ELSE LET t == SetMin(BothPresent(a, b))
         IN  Some(<<The(a[t + 1]), The(b[t + 1]), t>>)

\* second loop (lines 65-68) over the flipped arrays: None when end is not bound
ScanEnd(a, b) ==
    IF BothPresent(Flip(a), Flip(b)) = {} THEN None
    ELSE LET t == SetMin(BothPresent(Flip(a), Flip(b)))
         IN  Some(<<The(Flip(a)[t + 1]), The(Flip(b)[t + 1]), Len(a) - t>>)

ScanRaised(e) ==
    [status |-> e, start |-> None, end |-> None, n |-> 0, missing |-> None]

\* _scan_path(xs, ys): the returned dict, or UnboundLocalError at the return
\* statement when a loop ended without binding start or end
ScanPath(a, b) ==
    IF AllNone(a) /\ AllNone(b)
    THEN [status |-> "ok", start |-> None, end |-> None, n |-> 0,
          missing |-> None]
    ELSE IF ScanStart(a, b) = None \/ ScanEnd(a, b) = None
    THEN ScanRaised("UnboundLocalError")
    ELSE [status |-> "ok",
          start |-> ScanStart(a, b),
          end |-> ScanEnd(a, b),
          n |-> Len(a) - Len(MissingCoords(a, b)),
          missing |-> Some(MissingCoords(a, b))]

NotRun == ScanRaised("not run")

----------------------------------------------------------------------------
(* Match.__init__, zebra/path.py:20-49 *)

\* a list of station names that holds one name too many
stationsWithSpare ==
    <<"blue1", "blue2", "blue3", "red1", "red2", "red3", "red4">>

\* line 39
stations == <<"blue1", "blue2", "blue3", "red1", "red2", "red3">>

\* the keys of a team entry that lines 25-33 read
TeamEntryKeys == {"team_key", "xs", "ys"}

\* team['team_key'], team['xs'] or team['ys'] raises KeyError
LacksKey(team) == ~ (TeamEntryKeys \subseteq DOMAIN team)

\* a slip in the order of the alliances: red is walked before blue
AllianceEntriesRedFirst(zebra) == zebra.alliances.red \o zebra.alliances.blue

\* the entries in the order of "for alliance in ['blue', 'red']" (lines 30-31),
\* which is also the order of self.blue + self.red (line 38)
AllianceEntries(zebra) == zebra.alliances.blue \o zebra.alliances.red

\* lines 25-28
TeamKeys(alliance) == [i \in 1..Len(alliance) |-> alliance[i].team_key]

\* a slip in the slicing of each axis: the last sample is dropped
PathsListTruncated(entries) ==
    [i \in 1..(2 * Len(entries)) |->
        LET p == IF i % 2 = 1 THEN entries[(i + 1) \div 2].xs
                 ELSE entries[i \div 2].ys
        IN  SubSeq(p, 1, Len(p) - 1)]

\* lines 29-33: for each entry its xs, then its ys
PathsList(entries) ==
    [i \in 1..(2 * Len(entries)) |->
        IF i % 2 = 1 THEN entries[(i + 1) \div 2].xs ELSE entries[i \div 2].ys]

\* np.array(paths), line 34, is given lists of different lengths
Ragged(paths) == \E i, j \in DOMAIN paths : Len(paths[i]) # Len(paths[j])

\* what iteration idx (0-based) of the loop of lines 41-49 raises, "ok" if
\* nothing: self.paths[...] (lines 44-45), _scan_path, then stations[idx] (line 48)
StationStep(paths, idx) ==
    IF 2 * idx + 2 > Len(paths) THEN "IndexError"
    ELSE IF ScanPath(paths[2 * idx + 1], paths[2 * idx + 2]).status # "ok"
    THEN ScanPath(paths[2 * idx + 1], paths[2 * idx + 2]).status
    ELSE IF idx + 1 > Len(stations) THEN "IndexError"
    ELSE "ok"

\* lines 44-48: the dict stored for the team at iteration idx (0-based)
TeamData(paths, idx) ==
    LET sc == ScanPath(paths[2 * idx + 1], paths[2 * idx + 2])
    IN  [start |-> sc.start, end |-> sc.end, n |-> sc.n, missing |-> sc.missing,
         xs |-> paths[2 * idx + 1], ys |-> paths[2 * idx + 2],
         station |-> stations[idx + 1]]

SetMax(S) == CHOOSE m \in S : \A k \in S : k <= m

\* self.teams after the loop: a later station of the same team key replaces
\* the earlier one (line 49)
TeamsDict(teams_list, paths) ==
    [tm \in {teams_list[i] : i \in DOMAIN teams_list} |->
        TeamData(paths, SetMax({i \in DOMAIN teams_list : teams_list[i] = tm}) - 1)]

MatchRaised(e) ==
    [status |-> e, event |-> "", match |-> "", blue |-> <<>>, red |-> <<>>,
     paths |-> <<>>, times |-> <<>>, score |-> "", teams |-> <<>>]

\* Match(match_json).  ragged_ok is the behaviour of the installed numpy when
\* np.array is given lists of different lengths: TRUE, an array of list
\* objects is built; FALSE, ValueError is raised.
MatchInit(json, ragged_ok) ==
    IF json.zebra = None THEN MatchRaised("TypeError")
    ELSE LET zebra == The(json.zebra)
             entries == AllianceEntries(zebra)
         IN  IF \E i \in DOMAIN entries : LacksKey(entries[i])
             THEN MatchRaised("KeyError")
             ELSE LET paths == PathsList(entries)
                      teams_list == TeamKeys(zebra.alliances.blue)
                                        \o TeamKeys(zebra.alliances.red)
                      failed == {idx \in 0..(Len(teams_list) - 1) :
                                    StationStep(paths, idx) # "ok"}
                  IN  IF Ragged(paths) /\ ~ ragged_ok
                      THEN MatchRaised("ValueError")
                      ELSE IF failed # {}
                      THEN MatchRaised(StationStep(paths, SetMin(failed)))
                      ELSE [status |-> "ok",
                            event |-> json.event,
                            match |-> json.match,
                            blue |-> TeamKeys(zebra.alliances.blue),
                            red |-> TeamKeys(zebra.alliances.red),
                            paths |-> paths,
                            times |-> zebra.times,
                            score |-> json.score,
                            teams |-> TeamsDict(teams_list, paths)]

MatchNotRun == MatchRaised("not run")

\* value of match_json where no line is being parsed
NoJson == [event |-> "", match |-> "", zebra |-> None, score |-> ""]

----------------------------------------------------------------------------
(* Competitions, zebra/path.py:76-150 *)

\* a map with no key
EmptyMap == [k \in {} |-> 0]

\* json.loads(line), line 127: the decoded object, or JSONDecodeError.  The
\* lineno of a JSONDecodeError is counted within the string that json.loads
\* was given, which is the one line: a line of plain text is refused at its
\* first character, on line 1 of that string.
JsonLoads(line) ==
    IF line.kind = "json"
    THEN [status |-> "ok",
          value |-> [event |-> line.event, match |-> line.match,
                     zebra |-> line.zebra, score |-> line.score],
          lineno |-> None]
    ELSE [status |-> "JSONDecodeError", value |-> NoJson, lineno |-> Some(1)]

\* an aggregation that groups the records instead of all lines of the file
EventSummaryOfRecords(paths) ==
    [e \in {paths[i].event : i \in {k \in DOMAIN paths : paths[k].zebra # None}} |->
        Cardinality({i \in DOMAIN paths :
                        paths[i].event = e /\ paths[i].zebra # None})]

\* lines 130-137: per event of any line, the number of lines with zebra
EventSummary(paths) ==
    [e \in {paths[i].event : i \in DOMAIN paths} |->
        Cardinality({i \in DOMAIN paths :
                        paths[i].event = e /\ paths[i].zebra # None})]

\* a filter that hands the lines over in reverse
WithZebraReversed(paths) ==
    LET sel == SelectSeq(paths, LAMBDA path : path.zebra # None)
    IN  [i \in DOMAIN sel |-> sel[Len(sel) + 1 - i]]

\* lines 140-141: the decoded lines that carry zebra data, in file order
WithZebra(paths) == SelectSeq(paths, LAMBDA path : path.zebra # None)

\* a dictionary that keeps the first index of a repeated match key
MIndexFirstWins(zmatches) ==
    [k \in {zmatches[i].match : i \in DOMAIN zmatches} |->
        SetMin({i \in DOMAIN zmatches : zmatches[i].match = k}) - 1]

\* an enumerate that counts from 1
MIndexFromOne(zmatches) ==
    [k \in {zmatches[i].match : i \in DOMAIN zmatches} |->
        SetMax({i \in DOMAIN zmatches : zmatches[i].match = k})]

\* line 109: {zm.match: idx for idx, zm in enumerate(self.zmatches)}; a later
\* entry of the same key replaces the earlier one
MIndex(zmatches) ==
    [k \in {zmatches[i].match : i \in DOMAIN zmatches} |->
        SetMax({i \in DOMAIN zmatches : zmatches[i].match = k}) - 1]

\* the orders in which a set of strings may be iterated: hash_order lists
\* all strings in the order of their hashes in this run of the interpreter
Orderings(S) ==
    {o \in [1..Cardinality(S) -> S] :
        \A i, j \in 1..Cardinality(S) : i # j => o[i] # o[j]}

\* a list of every event known to the interpreter, whatever the set holds
ListOfAll(S, hash_order) == hash_order

\* list(set(...)), line 110
ListOfSet(S, hash_order) == SelectSeq(hash_order, LAMBDA e : e \in S)

\* an index builder that refuses a file without tracking data
BuildStatusRejectEmpty(decoded, built) ==
    IF \E i \in DOMAIN decoded : decoded[i].status # "ok"
    THEN decoded[SetMin({i \in DOMAIN decoded : decoded[i].status # "ok"})].status
    ELSE IF \E i \in DOMAIN built : built[i].status # "ok"
    THEN built[SetMin({i \in DOMAIN built : built[i].status # "ok"})].status
    ELSE IF built = <<>> THEN "EmptyDataset"
    ELSE "ok"

\* the exception that ends __init__, "ok" if none: the first line that
\* json.loads refuses (line 127), else the first Match(path) that raises
\* (line 140)
BuildStatus(decoded, built) ==
    IF \E i \in DOMAIN decoded : decoded[i].status # "ok"
    THEN decoded[SetMin({i \in DOMAIN decoded : decoded[i].status # "ok"})].status
    ELSE IF \E i \in DOMAIN built : built[i].status # "ok"
    THEN built[SetMin({i \in DOMAIN built : built[i].status # "ok"})].status
    ELSE "ok"

\* an error that carries the number of the refused line within the file
BuildLinenoInFile(decoded) ==
    IF \E i \in DOMAIN decoded : decoded[i].status # "ok"
    THEN Some(SetMin({i \in DOMAIN decoded : decoded[i].status # "ok"}))
    ELSE None

\* the lineno attribute of the exception that ends __init__, None if it has
\* none: nothing in _read_file adds the position of the line in the file to
\* the JSONDecodeError of line 127
BuildLineno(decoded) ==
    IF \E i \in DOMAIN decoded : decoded[i].status # "ok"
    THEN decoded[SetMin({i \in DOMAIN decoded : decoded[i].status # "ok"})].lineno
    ELSE None

CompetitionsRaised(e) ==
    [status |-> e, lineno |-> None, paths |-> <<>>, event_summary |-> EmptyMap,
     zmatches |-> <<>>, mindex |-> EmptyMap, events |-> <<>>]

\* Competitions(file), lines 93-110 with _read_file, lines 123-141.
\* ragged_ok is the behaviour of the installed numpy (see MatchInit);
\* hash_order decides the order of list(set(...)) of line 110.
CompetitionsInit(lines, ragged_ok, hash_order) ==
    LET decoded == [i \in DOMAIN lines |-> JsonLoads(lines[i])]
        paths == [i \in DOMAIN lines |-> decoded[i].value]
        built == [i \in DOMAIN WithZebra(paths) |->
                     MatchInit(WithZebra(paths)[i], ragged_ok)]
    IN  IF BuildStatus(decoded, built) # "ok"
        THEN [CompetitionsRaised(BuildStatus(decoded, built)) EXCEPT
                  !.lineno = BuildLineno(decoded)]
        ELSE [status |-> "ok",
              lineno |-> None,
              paths |-> paths,
              event_summary |-> EventSummary(paths),
              zmatches |-> built,
              mindex |-> MIndex(built),
              events |-> ListOfSet({built[i].event : i \in DOMAIN built},
                                   hash_order)]

\* a list index that is clamped to the last element instead of being refused
ListIndexClamped(n, idx) ==
    IF 0 <= idx /\ idx < n THEN Some(idx)
    ELSE IF 0 - n <= idx /\ idx < 0 THEN Some(n + idx)
    ELSE IF n > 0 /\ idx >= n THEN Some(n - 1)
    ELSE None

\* the 0-based position that a Python list of length n gives to the integer
\* index idx, None when list.__getitem__ raises IndexError
ListIndex(n, idx) ==
    IF 0 <= idx /\ idx < n THEN Some(idx)
    ELSE IF 0 - n <= idx /\ idx < 0 THEN Some(n + idx)
    ELSE None

QueryResult(op, status) ==
    [op |-> op, status |-> status, idx |-> 0, key |-> "", pos |-> None,
     value |-> None, count |-> 0, keys |-> <<>>]

NoResult == QueryResult("none", "none")

\* self.zmatches[idx], lines 115 and 117
ZMatchAt(c, idx) ==
    IF ListIndex(Len(c.zmatches), idx) = None
    THEN [QueryResult("getitem", "IndexError") EXCEPT !.idx = idx]
    ELSE [QueryResult("getitem", "ok") EXCEPT
              !.idx = idx,
              !.pos = ListIndex(Len(c.zmatches), idx),
              !.value = Some(c.zmatches[The(ListIndex(Len(c.zmatches), idx)) + 1])]

\* __getitem__ with an int, lines 114-115
GetItemInt(c, idx) == [ZMatchAt(c, idx) EXCEPT !.op = "getitem_int"]

\* a lookup that falls back on position 0 for a key that is not indexed
GetItemKeyDefault(c, key) ==
    IF key \notin DOMAIN c.mindex
    THEN [ZMatchAt(c, 0) EXCEPT !.op = "getitem_key", !.key = key, !.idx = 0]
    ELSE [ZMatchAt(c, c.mindex[key]) EXCEPT
              !.op = "getitem_key", !.key = key, !.idx = 0]

\* __getitem__ with a match key, lines 116-117
GetItemKey(c, key) ==
    IF key \notin DOMAIN c.mindex
    THEN [QueryResult("getitem_key", "KeyError") EXCEPT !.key = key]
    ELSE [ZMatchAt(c, c.mindex[key]) EXCEPT
              !.op = "getitem_key", !.key = key, !.idx = 0]

\* __len__, lines 119-121
LenOf(c) == [QueryResult("len", "ok") EXCEPT !.count = Len(c.zmatches)]

\* a listing that does not look at the event
MatchesOfAny(c, event) ==
    [QueryResult("matches", "ok") EXCEPT
        !.key = event,
        !.keys = [i \in DOMAIN c.zmatches |-> c.zmatches[i].match]]

\* matches(event), lines 148-150
MatchesOf(c, event) ==
    [QueryResult("matches", "ok") EXCEPT
        !.key = event,
        !.keys = LET sel == SelectSeq(c.zmatches, LAMBDA zm : zm.event = event)
                 IN  [i \in DOMAIN sel |-> sel[i].match]]

NotBuilt == CompetitionsRaised("not run")

----------------------------------------------------------------------------
(* download_match, pviewer/zebra/data.py:16-54 *)

\* the locals of _match_path_data: the 1-based number of the event being
\* processed (0 before the first), the 1-based number of the next match key
\* of that event, and the two counters of lines 29-30
DlState(ev, m, no_path_matches, has_path_data) ==
    [ev |-> ev, m |-> m, no_path_matches |-> no_path_matches,
     has_path_data |-> has_path_data]

DlIdle == DlState(0, 0, 0, FALSE)

\* the event keys returned by get_events (line 22), in the order returned
EventList == <<"2020wasno", "2020waspo">>

\* the match keys returned by get_match_keys (line 31): the m-th key of an event
MatchKeyOf(ekey, m) == [event |-> ekey, num |-> m]

\* lines 33-35: the two requests raise no HTTPError
FetchOk(fetch) == fetch = "ok"

\* a loop that gives up on an event also after some match had data
BreaksIgnoringData(no_path_matches, max, has_path_data) ==
    no_path_matches > max

\* a loop that never gives up on an event
BreaksNever(no_path_matches, max, has_path_data) == FALSE

\* the test of lines 41-42
Breaks(no_path_matches, max, has_path_data) ==
    no_path_matches > max /\ ~ has_path_data

\* lines 50-54: the line written for what the generator yields (lines 39, 46)
ZLine(ekey, m, fetch) ==
    [event |-> ekey,
     match |-> MatchKeyOf(ekey, m),
     zebra |-> IF FetchOk(fetch) THEN Some("zdata") ELSE None,
     score |-> IF FetchOk(fetch) THEN Some("score_data") ELSE None]

----------------------------------------------------------------------------
(* filter_by_event, pviewer/zebra/data.py:63-74 *)

\* a filter that looks at the event only
KeepLineAnyZebra(key, line_json) == line_json.event = key

\* the test of lines 70-71
KeepLine(key, line_json) ==
    line_json.event = key /\ line_json.zebra # None

\* line 72: ofile.write(line) writes the text that was read, not a new
\* serialisation of line_json
WrittenLine(line, line_json) == line

FilterResult(status, lines) ==
    [status |-> status, lines |-> lines, output_lines |-> Len(lines)]

FilterNotRun == FilterResult("not run", <<>>)

\* filter_by_event(key, input_file, output_file): the lines written and the
\* count printed, or the JSONDecodeError of line 69, which leaves in the
\* output file what was written before the refused line
FilterByEvent(key, lines) ==
    LET bad == {i \in DOMAIN lines : JsonLoads(lines[i]).status # "ok"}
        upto == IF bad = {} THEN Len(lines) ELSE SetMin(bad) - 1
        kept == SelectSeq(SubSeq(lines, 1, upto),
                          LAMBDA ln : KeepLine(key, JsonLoads(ln).value))
        written == [i \in DOMAIN kept |->
                       WrittenLine(kept[i], JsonLoads(kept[i]).value)]
    IN  FilterResult(IF bad = {} THEN "ok" ELSE "JSONDecodeError", written)

----------------------------------------------------------------------------
(* ZebraViewer, pviewer/main.py *)

\* value of viewer where no viewer is running
NoViewer == [status |-> "not run"]

\* line 44
INITIAL_END_TIME == 150

\* line 46
INITIAL_SPAN_LENGTH == 15

\* the end of the range slider (line 187), which is also the end_time that
\* the option All sets (line 354)
RANGE_END == 160

\* samples per second: the factor of lines 215-216
SAMPLES_PER_SECOND == 10

\* the options of level_selector, lines 169-173
Levels == {"qm", "qf", "sf", "f"}

\* the match keys of the model as the pattern of line 144 reads them: the
\* competition level after the underscore, the rest of the key (group 1), and
\* the place of that rest in the order of line 150 (its number, for qm) or of
\* line 152 (its text)
KeyParts ==
    [k \in {"2020wasno_qm1", "2020wasno_qm2", "2020wasno_qf1m1", "2020waspo_qm1"} |->
        CASE k = "2020wasno_qm1" -> [level |-> "qm", label |-> "1", rank |-> 1]
          [] k = "2020wasno_qm2" -> [level |-> "qm", label |-> "2", rank |-> 2]
          [] k = "2020wasno_qf1m1" -> [level |-> "qf", label |-> "1m1", rank |-> 1]
          [] k = "2020waspo_qm1" -> [level |-> "qm", label |-> "1", rank |-> 1]]

\* self.data seen through its index: the Competitions object of the viewer
ViewerData == [zmatches |-> vdata, mindex |-> MIndex(vdata)]

\* re.search(ptn, mtch_str), line 145, with ptn of line 144: None, or the
\* pair (match[0], match[1]) of line 148
ReSearch(level, mtch_str) ==
    IF KeyParts[mtch_str].level = level
    THEN Some(<<mtch_str, KeyParts[mtch_str].label>>)
    ELSE None

\* sorted(matches, key=...), lines 149-152: ascending by key, entries of equal
\* key in their former order
SortedByRank(matches) ==
    LET Before(p, q) ==
            \/ KeyParts[matches[p][1]].rank < KeyParts[matches[q][1]].rank
            \/ /\ KeyParts[matches[p][1]].rank = KeyParts[matches[q][1]].rank
               /\ p < q
        pos(n) == CHOOSE p \in DOMAIN matches :
                      Cardinality({q \in DOMAIN matches : Before(q, p)}) = n - 1
    IN  [n \in DOMAIN matches |-> matches[pos(n)]]

\* get_level_matches(), lines 132-153, for self.event and self.level
GetLevelMatches(event, level) ==
    LET keys == MatchesOf(ViewerData, event).keys
        found == SelectSeq([i \in DOMAIN keys |-> ReSearch(level, keys[i])],
                           LAMBDA m : m # None)
    IN  SortedByRank([i \in DOMAIN found |-> The(found[i])])

\* len(path[start:end]) for a path of n samples and start, end >= 0
SliceLen(n, start, end) ==
    IF Min(end, n) > Min(start, n) THEN Min(end, n) - Min(start, n) ELSE 0

\* what a callback leaves when a statement of it raises e: the statements
\* after it are not run
Raise(v, e) == [v EXCEPT !.err = e]

\* update_datasources(), lines 203-228: self.match is set (line 212),
\* self.data[self.match] may raise KeyError (line 213), and the last element
\* of an empty slice raises IndexError (lines 226-227)
UpdateDatasources(v) ==
    IF v.err # "ok" THEN v
    ELSE LET v1 == [v EXCEPT !.match = v.match_value]
             got == GetItemKey(ViewerData, v1.match)
         IN  IF got.status # "ok" THEN Raise(v1, got.status)
             ELSE IF SliceLen(The(got.value).path_len,
                              v1.start_time * SAMPLES_PER_SECOND,
                              v1.end_time * SAMPLES_PER_SECOND) = 0
             THEN Raise(v1, "IndexError")
             ELSE v1

\* update_plot_annotations(), lines 258-282: self.match is set (line 265) and
\* self.data[self.match] may raise KeyError (line 266)
UpdatePlotAnnotations(v) ==
    IF v.err # "ok" THEN v
    ELSE LET v1 == [v EXCEPT !.match = v.match_value]
             got == GetItemKey(ViewerData, v1.match)
         IN  IF got.status # "ok" THEN Raise(v1, got.status) ELSE v1

\* _match_selector_callback(new), lines 316-327
MatchSelectorCallback(v, new) ==
    IF v.err # "ok" THEN v
    ELSE LET v1 == [v EXCEPT !.match = new]
             got == GetItemKey(ViewerData, new)
         IN  IF got.status # "ok" THEN Raise(v1, got.status)
             ELSE UpdateDatasources(UpdatePlotAnnotations(v1))

\* self.match_selector.value = value: the callback registered on 'value'
\* (lines 408-410) runs when the value changes
SetMatchValue(v, value) ==
    IF v.err # "ok" \/ v.match_value = value THEN v
    ELSE MatchSelectorCallback([v EXCEPT !.match_value = value], value)

\* lines 293-297 and 310-314, common to both selector callbacks: the list of
\* matches is replaced, its first match is selected (IndexError when the list
\* is empty, lines 295 and 312), and the plot is updated
SelectFirstMatch(v) ==
    LET v1 == [v EXCEPT !.level_matches = GetLevelMatches(v.event, v.level)]
        v2 == [v1 EXCEPT !.options = v1.level_matches]
    IN  IF v2.level_matches = <<>> THEN Raise(v2, "IndexError")
        ELSE LET v3 == SetMatchValue(v2, v2.level_matches[1][1])
                 v4 == MatchSelectorCallback(v3, v3.match_value)
             IN  UpdateDatasources(v4)

\* _event_selector_callback(new), lines 284-297
EventSelectorCallback(v, new) == SelectFirstMatch([v EXCEPT !.event = new])

\* _level_selector_callback(new), lines 299-314
LevelSelectorCallback(v, new) == SelectFirstMatch([v EXCEPT !.level = new])

Max(a, b) == IF a >= b THEN a ELSE b

\* _time_range_selector_callback(value), lines 362-374
TimeRangeSelectorCallback(v, value) ==
    IF v.err # "ok" THEN v
    ELSE UpdateDatasources([v EXCEPT !.start_time = value[1],
                                     !.end_time = value[2]])

\* self.time_range_selector.value = value: the callback registered on
\* 'value' (lines 414-417) runs when the value changes
SetRangeValue(v, value) ==
    IF v.err # "ok" \/ v.range_value = value THEN v
    ELSE TimeRangeSelectorCallback([v EXCEPT !.range_value = value], value)

\* _time_span_selector_callback(value), lines 376-387
TimeSpanSelectorCallback(v, value) ==
    IF v.err # "ok" THEN v
    ELSE UpdateDatasources([v EXCEPT !.end_time = value,
                                     !.start_time = Max(0, value - v.span)])

\* _spen_length_spinner_callback(value), lines 389-398
SpanLengthSpinnerCallback(v, value) ==
    IF v.err # "ok" THEN v
    ELSE UpdateDatasources([v EXCEPT !.span = value,
                                     !.start_time = Max(0, v.end_time - value)])

\* the elements of a set of button numbers as a list, in ascending order
AscendingList(S) ==
    LET nth(n) == CHOOSE i \in S : Cardinality({j \in S : j < i}) = n - 1
    IN  [n \in 1..Cardinality(S) |-> nth(n)]

\* a difference that keeps the buttons that were active
ListOfDifferenceKeepAll(new, old) == new

\* list(set(new) - set(old)), line 342
ListOfDifference(new, old) ==
    AscendingList({new[i] : i \in DOMAIN new} \ {old[i] : i \in DOMAIN old})

\* lines 344-349: IndexError when no button is active
SetVisibility(v) ==
    IF v.err # "ok" THEN v
    ELSE IF v.active = <<>> THEN Raise(v, "IndexError")
    ELSE [v EXCEPT !.range_visible = (v.active[1] = 2),
                   !.spinner_visible = (v.active[1] = 1),
                   !.span_visible = (v.active[1] = 1)]

\* lines 352-356
PlotAll(v) ==
    IF v.err # "ok" \/ v.active[1] # 0 THEN v
    ELSE UpdateDatasources(
             SetRangeValue([v EXCEPT !.start_time = 0, !.end_time = RANGE_END],
                           <<0, RANGE_END>>))

\* lines 357-358
PlotSpan(v) ==
    IF v.err # "ok" \/ v.active[1] # 1 THEN v
    ELSE TimeSpanSelectorCallback(v, v.span_value)

\* lines 359-360
PlotRange(v) ==
    IF v.err # "ok" \/ v.active[1] # 2 THEN v
    ELSE TimeRangeSelectorCallback(v, v.range_value)

RECURSIVE TimeSelectTypeCallback(_, _, _)

\* self.time_select_type.active = value, lines 340 and 342: the callback
\* registered on 'active' (lines 411-413) runs, before the assignment
\* returns, when the value changes
SetActive(v, value) ==
    IF v.err # "ok" \/ v.active = value THEN v
    ELSE TimeSelectTypeCallback([v EXCEPT !.active = value], v.active, value)

\* _time_select_type_callback(old, new), lines 329-360
TimeSelectTypeCallback(v, old, new) ==
    LET v1 == IF Len(new) = 0 THEN SetActive(v, old) ELSE v
        v2 == IF Len(new) - Len(old) = 1
              THEN SetActive(v1, ListOfDifference(new, old))
              ELSE v1
    IN  PlotRange(PlotSpan(PlotAll(SetVisibility(v2))))

\* the value of 'active' after the user clicks button number i: the button
\* is added to the active ones or removed from them
Toggle(active, i) ==
    LET S == {active[k] : k \in DOMAIN active}
    IN  AscendingList(IF i \in S THEN S \ {i} ELSE S \cup {i})

\* the viewer after __init__, lines 95-130, for the event that comes first in
\* self.data.events
ViewerInit(event) ==
    LET level_matches == GetLevelMatches(event, "qm")
        v == [event |-> event,
              level |-> "qm",
              level_matches |-> level_matches,
              match |-> level_matches[1][1],
              start_time |-> 0,
              end_time |-> INITIAL_END_TIME,
              span |-> INITIAL_SPAN_LENGTH,
              options |-> level_matches,
              match_value |-> level_matches[1][1],
              active |-> <<0>>,
              range_value |-> <<0, 150>>,
              range_visible |-> FALSE,
              span_value |-> 15,
              span_visible |-> FALSE,
              spinner_value |-> 15,
              spinner_visible |-> FALSE,
              err |-> "ok"]
    IN  UpdateDatasources(v)

----------------------------------------------------------------------------
(* Specification SpecScan: _scan_path applied to every bounded pair of paths *)

InitScan ==
    /\ pc = "scan"
    /\ xs \in SeqsUpTo(Cells(XCoords), MaxLen)
    /\ ys \in SeqsUpTo(Cells(YCoords), MaxLen)
    /\ scan = NotRun
    /\ match_json = NoJson
    /\ zmatch = MatchNotRun
    /\ file = <<>>
    /\ zc = NotBuilt
    /\ result = NoResult
    /\ tba = <<>>
    /\ max_no_path_matches = 0
    /\ dl = DlIdle
    /\ zfile = <<>>
    /\ ifile = <<>>
    /\ event_key = ""
    /\ ofile = FilterNotRun
    /\ vdata = <<>>
    /\ viewer = NoViewer

CallScanPath ==
    /\ pc = "scan"
    /\ scan' = ScanPath(xs, ys)
    /\ pc' = "scanned"
    /\ UNCHANGED <<xs, ys, matchVars, compVars, dlVars, filterVars, viewerVars>>

NextScan == CallScanPath

SpecScan == InitScan /\ [][NextScan]_vars

----------------------------------------------------------------------------
(* Specification SpecMatch: Match(match_json) applied to bounded records *)

\* fewest entries of the blue alliance list: one fewer than a full alliance
MinTeams == (Len(stations) \div 2) - 1

\* most entries of the blue alliance list
MaxTeams == 4

\* the paths a team entry may carry: complete, partly missing, entirely
\* missing, without any valid sample (x missing throughout), and one sample short
PathN == [xs |-> <<{5}, {6}>>, ys |-> <<{1}, {2}>>]

PathP == [xs |-> <<{}, {6}>>, ys |-> <<{}, {2}>>]

PathM == [xs |-> <<{}, {}>>, ys |-> <<{}, {}>>]

PathX == [xs |-> <<{}, {}>>, ys |-> <<{1}, {2}>>]

PathS == [xs |-> <<{5}>>, ys |-> <<{1}>>]

Entry(key, path) == [team_key |-> key, xs |-> path.xs, ys |-> path.ys]

\* entries of alliances.blue: five complete entries, and two that lack a key
BlueEntries ==
    { Entry("frc1", PathN), Entry("frc2", PathP), Entry("frc3", PathM),
      Entry("frc4", PathX), Entry("frc5", PathS),
      [xs |-> PathN.xs, ys |-> PathN.ys],
      [team_key |-> "frc6", ys |-> PathN.ys] }

BlueAlliances == UNION {[1..k -> BlueEntries] : k \in MinTeams..MaxTeams}

\* alliances.red: three, two and four complete entries; three entries of which
\* one repeats a team key of blue; three entries of which one lacks ys
RedAlliances ==
    { <<Entry("frc7", PathP), Entry("frc8", PathN), Entry("frc9", PathM)>>,
      <<Entry("frc7", PathP), Entry("frc8", PathN)>>,
      <<Entry("frc7", PathP), Entry("frc8", PathN), Entry("frc9", PathM),
        Entry("frc10", PathN)>>,
      <<Entry("frc1", PathM), Entry("frc8", PathN), Entry("frc9", PathM)>>,
      <<Entry("frc7", PathP), [team_key |-> "frc8", xs |-> PathN.xs],
        Entry("frc9", PathM)>> }

\* zebra.times: as long as the two-sample paths, or one shorter
TimesChoices == {<<0, 1>>, <<0>>}

Zebras ==
    {[alliances |-> [blue |-> b, red |-> r], times |-> t] :
        b \in BlueAlliances, r \in RedAlliances, t \in TimesChoices}

MatchJsons ==
    {[event |-> "2020wasno", match |-> "2020wasno_qm1", zebra |-> z,
      score |-> "score"] : z \in {None} \cup {Some(zb) : zb \in Zebras}}

InitMatch ==
    /\ pc = "parse"
    /\ match_json \in MatchJsons
    /\ zmatch = MatchNotRun
    /\ xs = <<>>
    /\ ys = <<>>
    /\ scan = NotRun
    /\ file = <<>>
    /\ zc = NotBuilt
    /\ result = NoResult
    /\ tba = <<>>
    /\ max_no_path_matches = 0
    /\ dl = DlIdle
    /\ zfile = <<>>
    /\ ifile = <<>>
    /\ event_key = ""
    /\ ofile = FilterNotRun
    /\ vdata = <<>>
    /\ viewer = NoViewer

CallMatch ==
    /\ pc = "parse"
    /\ \E ragged_ok \in BOOLEAN : zmatch' = MatchInit(match_json, ragged_ok)
    /\ pc' = "parsed"
    /\ UNCHANGED <<match_json, scanVars, compVars, dlVars,
                   filterVars, viewerVars>>

NextMatch == CallMatch

SpecMatch == InitMatch /\ [][NextMatch]_vars

----------------------------------------------------------------------------
(* Specification Spec: a file is loaded into a Competitions object, which   *)
(* is then queried                                                         *)

\* most lines in the file
MaxLines == 3

EventKeys == {"2020wasno", "2020waspo"}

MatchKeys == {"2020wasno_qm1", "2020wasno_qm2"}

\* a zebra object that Match accepts, and one whose first station has no
\* valid sample, for which Match raises
GoodZebra ==
    [alliances |->
        [blue |-> <<Entry("frc1", PathN), Entry("frc2", PathP),
                    Entry("frc3", PathM)>>,
         red |-> <<Entry("frc7", PathP), Entry("frc8", PathN),
                   Entry("frc9", PathM)>>],
     times |-> <<0, 1>>]

BadZebra ==
    [alliances |->
        [blue |-> <<Entry("frc4", PathX), Entry("frc2", PathP),
                    Entry("frc3", PathM)>>,
         red |-> <<Entry("frc7", PathP), Entry("frc8", PathN),
                   Entry("frc9", PathM)>>],
     times |-> <<0, 1>>]

\* the event and match key of a line: two matches of one event, and a line
\* of another event that repeats a match key
LineKeys ==
    { <<"2020wasno", "2020wasno_qm1">>, <<"2020wasno", "2020wasno_qm2">>,
      <<"2020waspo", "2020wasno_qm1">> }

\* the lines a file may hold: JSON objects as written by download_match, with
\* or without zebra data, one whose zebra data Match refuses, and a line that
\* is not JSON
Lines ==
    {[kind |-> "json", event |-> k[1], match |-> k[2], zebra |-> z,
      score |-> "score"] :
        k \in LineKeys, z \in {None, Some(GoodZebra)}}
    \cup {[kind |-> "json", event |-> "2020wasno", match |-> "2020wasno_qm2",
           zebra |-> Some(BadZebra), score |-> "score"]}
    \cup {[kind |-> "text", event |-> "", match |-> "", zebra |-> None,
           score |-> ""]}

\* the integer and the key arguments tried on __getitem__, and the events
\* tried on matches
IntArgs == (0 - MaxLines - 1)..(MaxLines + 1)

KeyArgs == MatchKeys \cup {"2020wasno_qm9"}

EventArgs == EventKeys \cup {"2020wayak"}

Init ==
    /\ pc = "load"
    /\ file \in SeqsUpTo(Lines, MaxLines)
    /\ zc = NotBuilt
    /\ result = NoResult
    /\ xs = <<>>
    /\ ys = <<>>
    /\ scan = NotRun
    /\ match_json = NoJson
    /\ zmatch = MatchNotRun
    /\ tba = <<>>
    /\ max_no_path_matches = 0
    /\ dl = DlIdle
    /\ zfile = <<>>
    /\ ifile = <<>>
    /\ event_key = ""
    /\ ofile = FilterNotRun
    /\ vdata = <<>>
    /\ viewer = NoViewer

\* zc = Competitions(file)
Construct ==
    /\ pc = "load"
    /\ \E ragged_ok \in BOOLEAN :
         \E hash_order \in Orderings(EventKeys) :
            zc' = CompetitionsInit(file, ragged_ok, hash_order)
    /\ pc' = IF zc'.status = "ok" THEN "built" ELSE "failed"
    /\ UNCHANGED <<file, result, scanVars, matchVars, dlVars,
                   filterVars, viewerVars>>

\* zc[idx] with an int
QueryGetItemInt ==
    /\ pc = "built"
    /\ \E idx \in IntArgs : result' = GetItemInt(zc, idx)
    /\ UNCHANGED <<pc, file, zc, scanVars, matchVars, dlVars,
                   filterVars, viewerVars>>

\* zc[key] with a match key
QueryGetItemKey ==
    /\ pc = "built"
    /\ \E key \in KeyArgs : result' = GetItemKey(zc, key)
    /\ UNCHANGED <<pc, file, zc, scanVars, matchVars, dlVars,
                   filterVars, viewerVars>>

\* len(zc)
QueryLen ==
    /\ pc = "built"
    /\ result' = LenOf(zc)
    /\ UNCHANGED <<pc, file, zc, scanVars, matchVars, dlVars,
                   filterVars, viewerVars>>

\* a listing that consumes the records it lists
QueryMatchesConsuming ==
    /\ pc = "built"
    /\ \E event \in EventArgs :
          /\ result' = MatchesOf(zc, event)
          /\ zc' = [zc EXCEPT !.zmatches =
                       SelectSeq(zc.zmatches, LAMBDA zm : zm.event # event)]
    /\ UNCHANGED <<pc, file, scanVars, matchVars, dlVars,
                   filterVars, viewerVars>>

\* zc.matches(event)
QueryMatches ==
    /\ pc = "built"
    /\ \E event \in EventArgs : result' = MatchesOf(zc, event)
    /\ UNCHANGED <<pc, file, zc, scanVars, matchVars, dlVars,
                   filterVars, viewerVars>>

Next ==
    \/ Construct
    \/ QueryGetItemInt
    \/ QueryGetItemKey
    \/ QueryLen
    \/ QueryMatches

Spec == Init /\ [][Next]_vars

----------------------------------------------------------------------------
(* Specification SpecDownload: download_match runs against a remote whose    *)
(* answers are fixed beforehand.  The requests for the event keys and for    *)
(* the match keys of an event are answered; each match of an event is        *)
(* answered with its data, or get_zebra or get_match_scores raises HTTPError *)

\* most match keys of an event
MaxMatches == 3

\* how the requests for one match end: both answered, get_zebra raises
\* HTTPError (line 34), get_match_scores raises HTTPError (line 35)
Fetches == {"ok", "no_zebra", "no_score"}

\* values of the argument max_no_path_matches (5 when not given)
MaxNoPathChoices == {0, 1}

InitDownload ==
    /\ pc = "dl_event"
    /\ tba \in [DOMAIN EventList -> SeqsUpTo(Fetches, MaxMatches)]
    /\ max_no_path_matches \in MaxNoPathChoices
    /\ dl = DlIdle
    /\ zfile = <<>>
    /\ ifile = <<>>
    /\ event_key = ""
    /\ ofile = FilterNotRun
    /\ vdata = <<>>
    /\ viewer = NoViewer
    /\ xs = <<>>
    /\ ys = <<>>
    /\ scan = NotRun
    /\ match_json = NoJson
    /\ zmatch = MatchNotRun
    /\ file = <<>>
    /\ zc = NotBuilt
    /\ result = NoResult

\* lines 28-31: the next event key is taken and its match keys are requested
NextEvent ==
    /\ pc = "dl_event"
    /\ dl.ev < Len(EventList)
    /\ dl' = DlState(dl.ev + 1, 1, 0, FALSE)
    /\ pc' = "dl_match"
    /\ UNCHANGED <<tba, max_no_path_matches, zfile, scanVars, matchVars, compVars,
                   filterVars, viewerVars>>

\* lines 32-46 and 49-54: one match key is processed and its line is written
ProcessMatch ==
    /\ pc = "dl_match"
    /\ dl.m <= Len(tba[dl.ev])
    /\ LET fetch == tba[dl.ev][dl.m]
       IN  /\ zfile' = Append(zfile, ZLine(EventList[dl.ev], dl.m, fetch))
           /\ IF FetchOk(fetch)
              THEN /\ dl' = DlState(dl.ev, dl.m + 1, 0, TRUE)
                   /\ pc' = "dl_match"
              ELSE IF Breaks(dl.no_path_matches + 1, max_no_path_matches,
                             dl.has_path_data)
              THEN /\ dl' = DlState(dl.ev, dl.m, dl.no_path_matches + 1,
                                    dl.has_path_data)
                   /\ pc' = "dl_event"
              ELSE /\ dl' = DlState(dl.ev, dl.m + 1, dl.no_path_matches + 1,
                                    dl.has_path_data)
                   /\ pc' = "dl_match"
    /\ UNCHANGED <<tba, max_no_path_matches, scanVars, matchVars, compVars,
                   filterVars, viewerVars>>

\* line 32: the match keys of the event are exhausted
EndEvent ==
    /\ pc = "dl_match"
    /\ dl.m > Len(tba[dl.ev])
    /\ pc' = "dl_event"
    /\ UNCHANGED <<dlVars, scanVars, matchVars, compVars,
                   filterVars, viewerVars>>

\* lines 28 and 48: the events are exhausted and the file is closed
Finish ==
    /\ pc = "dl_event"
    /\ dl.ev = Len(EventList)
    /\ pc' = "dl_done"
    /\ UNCHANGED <<dlVars, scanVars, matchVars, compVars,
                   filterVars, viewerVars>>

NextDownload ==
    \/ NextEvent
    \/ ProcessMatch
    \/ EndEvent
    \/ Finish

SpecDownload == InitDownload /\ [][NextDownload]_vars

----------------------------------------------------------------------------
(* Specification SpecFilter: filter_by_event applied to bounded input files *)

\* the lines of an input file: JSON objects of two events, with or without
\* zebra data, serialised compactly or with spaces, and a line that is not
\* JSON
FilterLines ==
    {[kind |-> "json", event |-> e, match |-> "2020wasno_qm1", zebra |-> z,
      score |-> "score", text |-> t] :
        e \in EventKeys, z \in {None, Some("zdata")}, t \in {"compact", "spaced"}}
    \cup {[kind |-> "text", event |-> "", match |-> "", zebra |-> None,
           score |-> "", text |-> "text"]}

InitFilter ==
    /\ pc = "filter"
    /\ ifile \in SeqsUpTo(FilterLines, MaxLines)
    /\ event_key \in EventArgs
    /\ ofile = FilterNotRun
    /\ xs = <<>>
    /\ ys = <<>>
    /\ scan = NotRun
    /\ match_json = NoJson
    /\ zmatch = MatchNotRun
    /\ file = <<>>
    /\ zc = NotBuilt
    /\ result = NoResult
    /\ tba = <<>>
    /\ max_no_path_matches = 0
    /\ dl = DlIdle
    /\ zfile = <<>>
    /\ vdata = <<>>
    /\ viewer = NoViewer

CallFilterByEvent ==
    /\ pc = "filter"
    /\ ofile' = FilterByEvent(event_key, ifile)
    /\ pc' = "filtered"
    /\ UNCHANGED <<ifile, event_key, scanVars, matchVars, compVars, dlVars,
                   viewerVars>>

NextFilter == CallFilterByEvent

SpecFilter == InitFilter /\ [][NextFilter]_vars

----------------------------------------------------------------------------
(* Specification SpecViewer: a ZebraViewer is constructed on a data file and *)
(* the user operates its widgets; a callback that raises leaves the viewer   *)
(* as it was at the statement that raised, and the session goes on           *)

\* a match of self.data: its event, its key and the number of samples of
\* its paths
ViewerMatch(event, match, path_len) ==
    [event |-> event, match |-> match, path_len |-> path_len]

\* the data files of the model, as the matches with tracking data in file
\* order: two events of which one has qualification matches (not in the order
\* of their numbers) and a quarterfinal, and a file of one match
ViewerDatasets ==
    { << ViewerMatch("2020wasno", "2020wasno_qm2", 1500),
         ViewerMatch("2020wasno", "2020wasno_qm1", 1600),
         ViewerMatch("2020wasno", "2020wasno_qf1m1", 1500),
         ViewerMatch("2020waspo", "2020waspo_qm1", 1550) >>,
      << ViewerMatch("2020wasno", "2020wasno_qm1", 1600) >> }

\* values of the range slider handles (0..160, line 187), of the span slider
\* (0..150, line 193) and of the span-length spinner (5..55, line 200)
RangeStops == {0, 15, 150, 160}

SpanStops == {0, 15, 150}

SpinnerStops == {5, 15, 55}

\* the events of self.data, of which list(set(...)) puts any one first
ViewerEvents == {vdata[i].event : i \in DOMAIN vdata}

InitViewer ==
    /\ pc = "viewing"
    /\ vdata \in ViewerDatasets
    /\ \E event \in ViewerEvents : viewer = ViewerInit(event)
    /\ xs = <<>>
    /\ ys = <<>>
    /\ scan = NotRun
    /\ match_json = NoJson
    /\ zmatch = MatchNotRun
    /\ file = <<>>
    /\ zc = NotBuilt
    /\ result = NoResult
    /\ tba = <<>>
    /\ max_no_path_matches = 0
    /\ dl = DlIdle
    /\ zfile = <<>>
    /\ ifile = <<>>
    /\ event_key = ""
    /\ ofile = FilterNotRun

\* the viewer when a callback starts: what the previous callback raised has
\* been logged
Ready(v) == [v EXCEPT !.err = "ok"]

\* the user selects another competition
SelectEvent ==
    /\ pc = "viewing"
    /\ \E new \in ViewerEvents \ {viewer.event} :
          viewer' = EventSelectorCallback(Ready(viewer), new)
    /\ UNCHANGED <<pc, vdata, scanVars, matchVars, compVars, dlVars, filterVars>>

\* the user selects another competition level
SelectLevel ==
    /\ pc = "viewing"
    /\ \E new \in Levels \ {viewer.level} :
          viewer' = LevelSelectorCallback(Ready(viewer), new)
    /\ UNCHANGED <<pc, vdata, scanVars, matchVars, compVars, dlVars, filterVars>>

\* the user selects another match of the list
SelectMatch ==
    /\ pc = "viewing"
    /\ \E i \in DOMAIN viewer.options :
          /\ viewer.options[i][1] # viewer.match_value
          /\ viewer' = MatchSelectorCallback(
                 [Ready(viewer) EXCEPT !.match_value = viewer.options[i][1]],
                 viewer.options[i][1])
    /\ UNCHANGED <<pc, vdata, scanVars, matchVars, compVars, dlVars, filterVars>>

\* the user clicks one of the buttons All, Span, Range
ClickTimeSelect ==
    /\ pc = "viewing"
    /\ \E i \in 0..2 :
          viewer' = TimeSelectTypeCallback(
              [Ready(viewer) EXCEPT !.active = Toggle(viewer.active, i)],
              viewer.active, Toggle(viewer.active, i))
    /\ UNCHANGED <<pc, vdata, scanVars, matchVars, compVars, dlVars, filterVars>>

\* the user moves a handle of the range slider, which is visible
MoveRangeSlider ==
    /\ pc = "viewing"
    /\ viewer.range_visible
    /\ \E a, b \in RangeStops :
          /\ a <= b
          /\ <<a, b>> # viewer.range_value
          /\ viewer' = TimeRangeSelectorCallback(
                 [Ready(viewer) EXCEPT !.range_value = <<a, b>>], <<a, b>>)
    /\ UNCHANGED <<pc, vdata, scanVars, matchVars, compVars, dlVars, filterVars>>

\* the user moves the span slider, which is visible
MoveSpanSlider ==
    /\ pc = "viewing"
    /\ viewer.span_visible
    /\ \E value \in SpanStops \ {viewer.span_value} :
          viewer' = TimeSpanSelectorCallback(
              [Ready(viewer) EXCEPT !.span_value = value], value)
    /\ UNCHANGED <<pc, vdata, scanVars, matchVars, compVars, dlVars, filterVars>>

\* the user changes the span-length spinner, which is visible
ChangeSpanLength ==
    /\ pc = "viewing"
    /\ viewer.spinner_visible
    /\ \E value \in SpinnerStops \ {viewer.spinner_value} :
          viewer' = SpanLengthSpinnerCallback(
              [Ready(viewer) EXCEPT !.spinner_value = value], value)
    /\ UNCHANGED <<pc, vdata, scanVars, matchVars, compVars, dlVars, filterVars>>

NextViewer ==
    \/ SelectEvent
    \/ SelectLevel
    \/ SelectMatch
    \/ ClickTimeSelect
    \/ MoveRangeSlider
    \/ MoveSpanSlider
    \/ ChangeSpanLength

SpecViewer == InitViewer /\ [][NextViewer]_vars

----------------------------------------------------------------------------
(* Claims about _scan_path, stated on the arguments xs, ys and the result   *)
(* scan without using the operators that model the function.               *)

SameLen == Len(xs) = Len(ys)

EntirelyMissing(s) == \A i \in DOMAIN s : s[i] = {}

\* 1-based positions of the valid samples: both coordinates present
ValidIdx == {i \in DOMAIN xs \cap DOMAIN ys : xs[i] # {} /\ ys[i] # {}}

\* 0-based indices of the missing samples: x or y is None
MissingIdx == {i - 1 : i \in {k \in DOMAIN xs \cap DOMAIN ys : xs[k] = {} \/ ys[k] = {}}}

FirstValid == CHOOSE i \in ValidIdx : \A k \in ValidIdx : i <= k

LastValid == CHOOSE i \in ValidIdx : \A k \in ValidIdx : k <= i

\* s lists exactly the elements of S, in ascending order
ListsAscending(s, S) ==
    /\ Len(s) = Cardinality(S)
    /\ {s[k] : k \in DOMAIN s} = S
    /\ \A k \in 1..(Len(s) - 1) : s[k] < s[k + 1]

Scanned == pc = "scanned"

\* C1: for a path with at least one valid sample, start is (x, y, i) of the
\* first valid sample and end is (x, y, j) of the last valid sample, i and j
\* being the 0-based indices of those samples.
C1_StartEndIndices ==
    (Scanned /\ SameLen /\ ValidIdx # {}) =>
        /\ scan.status = "ok"
        /\ scan.start = {<<The(xs[FirstValid]), The(ys[FirstValid]), FirstValid - 1>>}
        /\ scan.end = {<<The(xs[LastValid]), The(ys[LastValid]), LastValid - 1>>}

\* C2: for a path with no valid sample (x or y missing at every index) the scan
\* succeeds and start and end are both None.
C2_NoValidSampleSucceeds ==
    (Scanned /\ SameLen /\ ValidIdx = {}) =>
        /\ scan.status = "ok"
        /\ scan.start = {}
        /\ scan.end = {}

\* C3 as claimed: for every station of a parsed match the count equals the path
\* length minus the length of the missing list, and that list holds exactly
\* the indices at which x or y is missing, also for an entirely missing path.
C3_CountIsLenMinusMissing ==
    (Scanned /\ SameLen /\ scan.status = "ok") =>
        /\ scan.missing # {}
        /\ ListsAscending(The(scan.missing), MissingIdx)
        /\ scan.n = Len(xs) - Len(The(scan.missing))

\* C3 as amended: with at least one valid sample the count equals the path
\* length minus the length of the missing list, which holds exactly the
\* indices at which x or y is missing; for an entirely missing path the count
\* is 0 and the missing list is None.
C3_CountAndMissingAmended ==
    (Scanned /\ SameLen /\ scan.status = "ok") =>
        IF ValidIdx # {}
        THEN /\ scan.missing # {}
             /\ ListsAscending(The(scan.missing), MissingIdx)
             /\ scan.n = Len(xs) - Len(The(scan.missing))
             /\ scan.n = Cardinality(ValidIdx)
        ELSE /\ scan.n = 0
             /\ scan.missing = {}

C3_Witness ==
    /\ Scanned /\ SameLen /\ scan.status = "ok"
    /\ Len(xs) = 3
    /\ xs[1] # {} /\ ys[1] = {}
    /\ scan.n = 2

\* C4: when xs and ys are both entirely missing (or the path is empty) start
\* and end are None and the count is 0.
C4_EntirelyMissing ==
    (Scanned /\ EntirelyMissing(xs) /\ EntirelyMissing(ys)) =>
        /\ scan.status = "ok"
        /\ scan.start = {}
        /\ scan.end = {}
        /\ scan.n = 0

C4_Witness ==
    /\ Scanned /\ scan.status = "ok"
    /\ Len(xs) = 2 /\ Len(ys) = 2
    /\ EntirelyMissing(xs) /\ EntirelyMissing(ys)
    /\ scan.n = 0

----------------------------------------------------------------------------
(* Claims about Match.__init__, stated on the argument match_json and the   *)
(* result zmatch.                                                          *)

Parsed == pc = "parsed"

HasZebra == match_json.zebra # {}

InZebra == CHOOSE z \in match_json.zebra : TRUE

InBlue == InZebra.alliances.blue

InRed == InZebra.alliances.red

InEntries == InBlue \o InRed

Complete(entry) == {"team_key", "xs", "ys"} \subseteq DOMAIN entry

EntryLacks == \E i \in DOMAIN InEntries : ~ Complete(InEntries[i])

\* the xs and ys of every entry have the length of times
InputLengthsAgree ==
    \A i \in DOMAIN InEntries :
        /\ Len(InEntries[i].xs) = Len(InZebra.times)
        /\ Len(InEntries[i].ys) = Len(InZebra.times)

\* the xs and ys of all entries have one common length
InputOneLength ==
    \A i, j \in DOMAIN InEntries :
        /\ Len(InEntries[i].xs) = Len(InEntries[j].ys)
        /\ Len(InEntries[i].xs) = Len(InEntries[j].xs)

\* the path of the entry is entirely missing or has a valid sample
EntryScannable(entry) ==
    \/ EntirelyMissing(entry.xs) /\ EntirelyMissing(entry.ys)
    \/ \E k \in DOMAIN entry.xs \cap DOMAIN entry.ys :
          entry.xs[k] # {} /\ entry.ys[k] # {}

\* C9 as claimed: parsing fails whenever alliances.blue or alliances.red does
\* not contain exactly 3 entries or any team entry lacks xs, ys or team_key.
\* (Records whose complete entries carry sequences of different lengths are
\* left aside: what np.array does with them depends on the numpy installed.)
C9_MalformedRejected ==
    (Parsed /\ HasZebra /\ (Len(InBlue) # 3 \/ Len(InRed) # 3 \/ EntryLacks)) =>
        \/ zmatch.status # "ok"
        \/ ~ EntryLacks /\ ~ InputOneLength

\* C9 as amended: parsing fails with KeyError whenever any team entry lacks
\* xs, ys or team_key, and fails whenever blue and red together hold more than
\* 6 entries; the entry counts are not otherwise checked: a record of at most 6
\* complete entries whose sequences have one common length and whose stations
\* are each entirely missing or have a valid sample is parsed.
C9_RejectedAmended ==
    (Parsed /\ HasZebra) =>
        /\ EntryLacks => zmatch.status = "KeyError"
        /\ Len(InEntries) > 6 =>
              zmatch.status \in {"KeyError", "ValueError", "UnboundLocalError",
                                 "IndexError"}
        /\ ( /\ ~ EntryLacks
             /\ Len(InEntries) <= 6
             /\ InputOneLength
             /\ \A i \in DOMAIN InEntries : EntryScannable(InEntries[i]) )
              => zmatch.status = "ok"

C9_Witness ==
    /\ Parsed /\ HasZebra
    /\ Len(InBlue) = 3 /\ Len(InRed) = 3
    /\ EntryLacks
    /\ zmatch.status = "KeyError"

\* C10 as claimed: every MatchRecord the parser returns has exactly 12 path
\* sequences, all of the same length, which is the length of times.
\* (Stated for records whose sequences have one common length: what np.array
\* does with the others depends on the numpy installed.)
C10_TwelveEqualPaths ==
    (Parsed /\ zmatch.status = "ok" /\ InputOneLength) =>
        /\ Len(zmatch.paths) = 12
        /\ \A i \in DOMAIN zmatch.paths :
              Len(zmatch.paths[i]) = Len(zmatch.times)

\* C10 as amended: every MatchRecord the parser returns has two path sequences
\* per team entry of the record, each as long as the xs or ys it was taken
\* from, and times as long as the record's times; so it has exactly 12 path
\* sequences, all of the length of times, when the record has 3 blue and 3 red
\* entries whose xs and ys all have the length of times.
C10_PathsAsGivenAmended ==
    (Parsed /\ zmatch.status = "ok") =>
        /\ Len(zmatch.paths) = 2 * Len(InEntries)
        /\ Len(zmatch.times) = Len(InZebra.times)
        /\ \A k \in DOMAIN InEntries :
              /\ Len(zmatch.paths[2 * k - 1]) = Len(InEntries[k].xs)
              /\ Len(zmatch.paths[2 * k]) = Len(InEntries[k].ys)
        /\ (Len(InBlue) = 3 /\ Len(InRed) = 3 /\ InputLengthsAgree) =>
              /\ Len(zmatch.paths) = 12
              /\ \A i \in DOMAIN zmatch.paths :
                    Len(zmatch.paths[i]) = Len(zmatch.times)

C10_Witness ==
    /\ Parsed /\ zmatch.status = "ok"
    /\ Len(InBlue) = 3 /\ Len(InRed) = 3
    /\ InputLengthsAgree
    /\ Len(zmatch.paths) = 12
    /\ Len(zmatch.times) = 2

\* the station names in the order blue1..red3
StationNames == <<"blue1", "blue2", "blue3", "red1", "red2", "red3">>

\* C11: for a record with 3 blue and 3 red team entries, blueTeams and
\* redTeams are the team_key values in list order, and paths[2k] and
\* paths[2k+1] are the xs and ys of the k-th team of blue followed by red
\* (k = 0..5), i.e. station order blue1, blue2, blue3, red1, red2, red3.
C11_StationOrder ==
    (Parsed /\ zmatch.status = "ok" /\ Len(InBlue) = 3 /\ Len(InRed) = 3) =>
        /\ zmatch.blue = <<InBlue[1].team_key, InBlue[2].team_key,
                           InBlue[3].team_key>>
        /\ zmatch.red = <<InRed[1].team_key, InRed[2].team_key,
                          InRed[3].team_key>>
        /\ Len(zmatch.paths) = 12
        /\ \A k \in 0..5 :
              /\ zmatch.paths[2 * k + 1] = InEntries[k + 1].xs
              /\ zmatch.paths[2 * k + 2] = InEntries[k + 1].ys

C11_Witness ==
    /\ Parsed /\ zmatch.status = "ok"
    /\ Len(InBlue) = 3 /\ Len(InRed) = 3
    /\ InBlue[1].xs # InRed[1].xs
    /\ InBlue[1].team_key # InBlue[2].team_key
    /\ zmatch.paths[7] = InRed[1].xs
    /\ zmatch.blue[2] = InBlue[2].team_key

\* C12: after parsing any record with 3 blue and 3 red entries, the match
\* holds exactly six path-statistics entries, one for each station
\* blue1..red3, the entry of station k being computed from paths[2k] and
\* paths[2k+1]; this holds also when the same team_key appears at more than
\* one station of the match.
\* (Stated for records whose sequences have one common length: what np.array
\* does with the others depends on the numpy installed.)
C12_SixStationEntries ==
    (Parsed /\ zmatch.status = "ok" /\ Len(InBlue) = 3 /\ Len(InRed) = 3
        /\ InputOneLength) =>
        /\ Cardinality(DOMAIN zmatch.teams) = 6
        /\ \A k \in 0..5 :
              \E tm \in DOMAIN zmatch.teams :
                  /\ zmatch.teams[tm].station = StationNames[k + 1]
                  /\ zmatch.teams[tm].xs = zmatch.paths[2 * k + 1]
                  /\ zmatch.teams[tm].ys = zmatch.paths[2 * k + 2]

----------------------------------------------------------------------------
(* Claims about Competitions, stated on the file, the object zc built from  *)
(* it and the result of the latest query.                                  *)

Built == pc = "built"

\* the outcome of the constructor is known
Constructed == pc \in {"built", "failed"}

Records == zc.zmatches

\* 1-based positions of the records that carry match key k
Carrying(k) == {p \in DOMAIN Records : Records[p].match = k}

LastCarrying(k) == CHOOSE p \in Carrying(k) : \A q \in Carrying(k) : q <= p

\* 1-based positions of the lines of the file that carry tracking data
TrackingLines == {i \in DOMAIN file : file[i].kind = "json" /\ file[i].zebra # {}}

AllLinesJson == \A i \in DOMAIN file : file[i].kind = "json"

\* C5 as claimed: get(position) fails with an index-out-of-range error for
\* every position outside [0, len(records)), negative positions included, and
\* returns records[position] for every position inside.
C5_GetByPosition ==
    (Built /\ result.op = "getitem_int") =>
        IF 0 <= result.idx /\ result.idx < Len(Records)
        THEN /\ result.status = "ok"
             /\ result.pos = {result.idx}
             /\ result.value = {Records[result.idx + 1]}
        ELSE /\ result.status = "IndexError"
             /\ result.value = {}

\* C5 as amended: get(position) returns records[position] for every position
\* in [0, len(records)), returns records[len(records) + position] for every
\* position in [-len(records), 0), and fails with an index-out-of-range error
\* for every other position.
C5_GetByPositionAmended ==
    (Built /\ result.op = "getitem_int") =>
        IF 0 <= result.idx /\ result.idx < Len(Records)
        THEN /\ result.status = "ok"
             /\ result.pos = {result.idx}
             /\ result.value = {Records[result.idx + 1]}
        ELSE IF 0 - Len(Records) <= result.idx /\ result.idx < 0
        THEN /\ result.status = "ok"
             /\ result.pos = {Len(Records) + result.idx}
             /\ result.value = {Records[Len(Records) + result.idx + 1]}
        ELSE /\ result.status = "IndexError"
             /\ result.pos = {}
             /\ result.value = {}

C5_Witness ==
    /\ Built /\ result.op = "getitem_int"
    /\ Len(Records) = 2
    /\ result.idx = 2
    /\ result.status = "IndexError"

\* C6 as claimed: for every record r of records, looking up r's matchKey
\* returns r (a record of the same value), also when two records carry the
\* same matchKey.
C6_RoundTrip ==
    (Built /\ result.op = "getitem_key") =>
        \A p \in Carrying(result.key) :
            /\ result.status = "ok"
            /\ result.value = {Records[p]}

\* C6 as amended: for every record r of records, looking up r's matchKey
\* returns the last record in file order that carries that matchKey; it
\* returns r itself exactly when no later record carries r's matchKey, hence
\* for every record when all matchKeys are distinct.
C6_RoundTripAmended ==
    (Built /\ result.op = "getitem_key") =>
        \A p \in Carrying(result.key) :
            /\ result.status = "ok"
            /\ result.pos = {LastCarrying(result.key) - 1}
            /\ result.value = {Records[LastCarrying(result.key)]}
            /\ (result.pos = {p - 1}) <=>
                  ~ \E q \in Carrying(result.key) : q > p

C6_Witness ==
    /\ Built /\ result.op = "getitem_key"
    /\ Len(Records) = 2
    /\ Carrying(result.key) = {1, 2}
    /\ Records[1] # Records[2]
    /\ result.pos = {1}

\* C7: byKey maps each matchKey occurring in records to the position of the
\* last record in file order that carries it, while records keeps every
\* entry, so |byKey| <= len(records) with equality iff all matchKeys are
\* distinct.
C7_LastWriteWins ==
    Built =>
        /\ DOMAIN zc.mindex = {Records[p].match : p \in DOMAIN Records}
        /\ \A k \in DOMAIN zc.mindex : zc.mindex[k] = LastCarrying(k) - 1
        /\ Len(Records) = Cardinality(TrackingLines)
        /\ Cardinality(DOMAIN zc.mindex) <= Len(Records)
        /\ (Cardinality(DOMAIN zc.mindex) = Len(Records)) <=>
              \A p, q \in DOMAIN Records :
                  Records[p].match = Records[q].match => p = q

C7_Witness ==
    /\ Built
    /\ Len(Records) = 3
    /\ Cardinality(DOMAIN zc.mindex) = 2
    /\ Records[1].match = Records[2].match
    /\ zc.mindex[Records[1].match] = 1

\* C8 as claimed: building an index from a file in which zero lines carry
\* tracking data fails instead of returning an index.
C8_EmptyDatasetFails ==
    (Constructed /\ AllLinesJson /\ TrackingLines = {}) =>
        zc.status # "ok"

\* C8 as amended: building an index from a file in which zero lines carry
\* tracking data (every line has null zebra, or the file has no lines) does
\* not fail: it returns an empty index, with no records, an empty byKey, no
\* events, and an eventSummary of 0 for every event of the file.
C8_EmptyDatasetAmended ==
    (Constructed /\ AllLinesJson /\ TrackingLines = {}) =>
        /\ zc.status = "ok"
        /\ zc.zmatches = <<>>
        /\ DOMAIN zc.mindex = {}
        /\ zc.events = <<>>
        /\ DOMAIN zc.event_summary = {file[i].event : i \in DOMAIN file}
        /\ \A e \in DOMAIN zc.event_summary : zc.event_summary[e] = 0

C8_Witness ==
    /\ Built
    /\ Len(file) = 2
    /\ AllLinesJson /\ TrackingLines = {}
    /\ zc.zmatches = <<>>

\* the n-th smallest element of a set of positions
NthOf(S, n) == CHOOSE i \in S : Cardinality({j \in S : j <= i}) = n

\* C13: records consists of exactly the parsed lines of the input file whose
\* zebra is non-null, in original file order with no line dropped, merged or
\* reordered, and length() equals the number of such lines.
C13_RecordsInFileOrder ==
    Built =>
        /\ Len(Records) = Cardinality(TrackingLines)
        /\ \A p \in DOMAIN Records :
              LET ln == file[NthOf(TrackingLines, p)]
                  zb == CHOOSE z \in ln.zebra : TRUE
              IN  /\ Records[p].event = ln.event
                  /\ Records[p].match = ln.match
                  /\ Records[p].score = ln.score
                  /\ Records[p].times = zb.times
                  /\ Len(Records[p].blue) = Len(zb.alliances.blue)
                  /\ \A t \in DOMAIN zb.alliances.blue :
                        Records[p].blue[t] = zb.alliances.blue[t].team_key
        /\ (result.op = "len") =>
              /\ result.status = "ok"
              /\ result.count = Cardinality(TrackingLines)

C13_Witness ==
    /\ Built
    /\ Len(file) = 3
    /\ file[1].zebra # {} /\ file[2].zebra = {} /\ file[3].zebra # {}
    /\ file[1].match # file[3].match
    /\ Records[2].match = file[3].match
    /\ result.op = "len"
    /\ result.count = 2

\* the lines of event e, and those of them that carry tracking data
LinesOf(e) == {i \in DOMAIN file : file[i].event = e}

\* C14: eventSummary has one entry for every distinct eventKey appearing on
\* any line of the file (also events all of whose lines have null zebra, with
\* count 0), its path_matches being the number of that event's lines with
\* non-null zebra; hence path_matches <= total lines of the event, with
\* equality iff no line of that event has null zebra.
C14_EventSummary ==
    Built =>
        /\ DOMAIN zc.event_summary = {file[i].event : i \in DOMAIN file}
        /\ \A e \in DOMAIN zc.event_summary :
              /\ zc.event_summary[e] = Cardinality(LinesOf(e) \cap TrackingLines)
              /\ zc.event_summary[e] <= Cardinality(LinesOf(e))
              /\ (zc.event_summary[e] = Cardinality(LinesOf(e))) <=>
                    \A i \in LinesOf(e) : file[i].zebra # {}

C14_Witness ==
    /\ Built
    /\ Len(file) = 3
    /\ DOMAIN zc.event_summary = {"2020wasno", "2020waspo"}
    /\ zc.event_summary["2020waspo"] = 0
    /\ zc.event_summary["2020wasno"] = 1
    /\ Cardinality(LinesOf("2020wasno")) = 2

\* C15: events contains each eventKey that occurs in records exactly once and
\* contains no eventKey that occurs only on lines with null zebra;
\* equivalently events is the set of events whose eventSummary path_matches
\* is greater than 0.
C15_EventsOfRecords ==
    Built =>
        /\ \A i, j \in DOMAIN zc.events : i # j => zc.events[i] # zc.events[j]
        /\ {zc.events[i] : i \in DOMAIN zc.events}
              = {Records[p].event : p \in DOMAIN Records}
        /\ {zc.events[i] : i \in DOMAIN zc.events}
              = {e \in DOMAIN zc.event_summary : zc.event_summary[e] > 0}
        /\ \A e \in {file[i].event : i \in DOMAIN file} :
              (LinesOf(e) \cap TrackingLines = {}) =>
                  ~ \E i \in DOMAIN zc.events : zc.events[i] = e

C15_Witness ==
    /\ Built
    /\ Len(file) = 3
    /\ Len(Records) = 2
    /\ Records[1].event = Records[2].event
    /\ zc.events = <<Records[1].event>>
    /\ Cardinality(DOMAIN zc.event_summary) = 2

\* the match keys of the lines with null zebra, and of the lines with tracking
\* data
NullLineKeys ==
    {file[i].match : i \in {k \in DOMAIN file : file[k].zebra = {}}}

TrackingKeys == {file[i].match : i \in TrackingLines}

\* C16 as claimed: get(matchKey) fails with a key-not-found error for every
\* key absent from byKey, in particular for the matchKey of every line whose
\* zebra was null and on an index built from a file with no tracking data; it
\* never returns a record for such a key.
C16_NullLineKeyNotFound ==
    (Built /\ result.op = "getitem_key") =>
        IF result.key \notin DOMAIN zc.mindex \/ result.key \in NullLineKeys
        THEN /\ result.status = "KeyError"
             /\ result.value = {}
        ELSE result.status = "ok"

\* C16 as amended: get(matchKey) fails with a key-not-found error for every
\* key absent from byKey, which holds the matchKeys of the lines with
\* tracking data: so it fails for the matchKey of a line whose zebra was null
\* unless another line with tracking data carries the same matchKey, and for
\* every key on an index built from a file with no tracking data; it returns
\* a record exactly for the keys of byKey.
C16_KeyNotFoundAmended ==
    (Built /\ result.op = "getitem_key") =>
        /\ DOMAIN zc.mindex = TrackingKeys
        /\ (result.key \notin DOMAIN zc.mindex) =>
              /\ result.status = "KeyError"
              /\ result.value = {}
        /\ (result.key \in NullLineKeys /\ result.key \notin TrackingKeys) =>
              result.status = "KeyError"
        /\ (TrackingLines = {}) => result.status = "KeyError"
        /\ (result.key \in TrackingKeys) =>
              /\ result.status = "ok"
              /\ result.value # {}

C16_Witness ==
    /\ Built /\ result.op = "getitem_key"
    /\ Len(file) = 3
    /\ Len(Records) = 2
    /\ result.key \in NullLineKeys
    /\ result.key \notin TrackingKeys
    /\ result.status = "KeyError"

\* 1-based positions of the records of event e
RecordsOf(e) == {p \in DOMAIN Records : Records[p].event = e}

\* C17: matchesForEvent(eventKey) returns the matchKeys of exactly those
\* records whose eventKey equals the argument, in file order, with one
\* element per record (duplicates kept), and returns the empty sequence for
\* an eventKey that has no record.
C17_MatchesForEvent ==
    (Built /\ result.op = "matches") =>
        /\ result.status = "ok"
        /\ Len(result.keys) = Cardinality(RecordsOf(result.key))
        /\ \A n \in DOMAIN result.keys :
              result.keys[n] = Records[NthOf(RecordsOf(result.key), n)].match
        /\ (RecordsOf(result.key) = {}) => result.keys = <<>>

C17_Witness ==
    /\ Built /\ result.op = "matches"
    /\ Len(Records) = 3
    /\ Records[1].event = result.key
    /\ Records[2].event # result.key
    /\ Records[3].event = result.key
    /\ Len(result.keys) = 2
    /\ result.keys[1] = result.keys[2]

\* C18: once an index is built, any sequence of query operations (get by
\* key, get by position, length, matchesForEvent), successful or failing,
\* leaves records, byKey, events and eventSummary unchanged.
C18_QueriesReadOnly ==
    [][(pc = "built") =>
          /\ zc'.zmatches = zc.zmatches
          /\ zc'.mindex = zc.mindex
          /\ zc'.events = zc.events
          /\ zc'.event_summary = zc.event_summary
          /\ pc' = "built"]_vars

C18_Witness ==
    /\ Built
    /\ Len(Records) = 2
    /\ DOMAIN zc.mindex # {}
    /\ result.op = "getitem_int"
    /\ result.status = "IndexError"

\* 1-based number of the first line of the file that is not JSON
FirstBadLine ==
    CHOOSE i \in DOMAIN file :
        /\ file[i].kind # "json"
        /\ \A j \in DOMAIN file : file[j].kind # "json" => i <= j

\* C19 as claimed: when a line of the input file is not valid JSON, building
\* the index fails with a file-format error that identifies the number of the
\* offending line within the file, and no index is returned.
C19_LineNumberIdentified ==
    (Constructed /\ ~ AllLinesJson) =>
        /\ zc.status # "ok"
        /\ zc.zmatches = <<>>
        /\ zc.lineno = {FirstBadLine}

\* C19 as amended: when a line of the input file is not valid JSON, building
\* the index fails with the JSON decoder's error and no index is returned;
\* the error locates the fault within the text of the offending line (line 1
\* of that text for a line that is not JSON from its first character) and
\* does not identify the number of the line within the file.
C19_DecodeErrorAmended ==
    (Constructed /\ ~ AllLinesJson) =>
        /\ zc.status = "JSONDecodeError"
        /\ zc.zmatches = <<>>
        /\ DOMAIN zc.mindex = {}
        /\ zc.lineno = {1}

C19_Witness ==
    /\ Constructed
    /\ Len(file) = 3
    /\ file[1].kind = "json" /\ file[2].kind = "json" /\ file[3].kind # "json"
    /\ zc.status = "JSONDecodeError"
    /\ zc.lineno = {1}

\* the event of the record that the latest lookup returned
ReturnedEvent == (CHOOSE z \in result.value : TRUE).event

\* the events e for which matchesForEvent(e) lists match key k
EventsListing(k) == {Records[p].event : p \in Carrying(k)}

\* C25 as claimed: for every eventKey e and every matchKey k returned by
\* matchesForEvent(e), get(k) returns a record whose eventKey is e, for any
\* input file, including one where the same matchKey occurs under two events.
C25_SameEvent ==
    (Built /\ result.op = "getitem_key" /\ Carrying(result.key) # {}) =>
        /\ result.status = "ok"
        /\ \A e \in EventsListing(result.key) : ReturnedEvent = e

\* C25 as amended: for every eventKey e and every matchKey k returned by
\* matchesForEvent(e), get(k) returns the last record in file order that
\* carries k; the eventKey of that record is e when k occurs under one event
\* only, and for a file where k occurs under two events it is the event of
\* the last record carrying k, whichever e was selected.
C25_EventOfLastRecordAmended ==
    (Built /\ result.op = "getitem_key" /\ Carrying(result.key) # {}) =>
        /\ result.status = "ok"
        /\ ReturnedEvent = Records[LastCarrying(result.key)].event
        /\ (Cardinality(EventsListing(result.key)) = 1) =>
              \A e \in EventsListing(result.key) : ReturnedEvent = e
        /\ (Cardinality(EventsListing(result.key)) > 1) =>
              \E e \in EventsListing(result.key) : ReturnedEvent # e

C25_Witness ==
    /\ Built /\ result.op = "getitem_key"
    /\ Len(Records) = 2
    /\ Records[1].match = result.key
    /\ Records[2].match = result.key
    /\ Records[1].event = "2020waspo"
    /\ Records[2].event = "2020wasno"
    /\ ReturnedEvent = "2020wasno"

----------------------------------------------------------------------------
(* Claims about download_match, stated on the answers tba of the remote and  *)
(* the lines zfile written.                                                  *)

Downloaded == pc = "dl_done"

\* the lines written for event number e, in the order written
WrittenFor(e) == SelectSeq(zfile, LAMBDA ln : ln.event = EventList[e])

\* the line that match key number m of event number e is to produce
LineFor(e, m) ==
    [event |-> EventList[e],
     match |-> [event |-> EventList[e], num |-> m],
     zebra |-> IF tba[e][m] = "ok" THEN {"zdata"} ELSE {},
     score |-> IF tba[e][m] = "ok" THEN {"score_data"} ELSE {}]

\* the first n fetches of event number e all fail with an HTTP error
LeadingFailures(e, n) ==
    /\ n <= Len(tba[e])
    /\ \A m \in 1..n : tba[e][m] # "ok"

\* the number of match keys of event number e that are processed
Processed(e) ==
    IF LeadingFailures(e, max_no_path_matches + 1)
    THEN max_no_path_matches + 1
    ELSE Len(tba[e])

\* C20 as claimed: in download_match, every match key of every processed
\* event produces exactly one output line, in match-key order: a match whose
\* fetch fails with an HTTP error is written as a line with zebra null rather
\* than omitted, so the number of lines written for an event equals the
\* number of match keys of that event.
C20_EveryMatchKeyWritten ==
    Downloaded =>
        \A e \in DOMAIN EventList :
            /\ Len(WrittenFor(e)) = Len(tba[e])
            /\ \A m \in DOMAIN WrittenFor(e) : WrittenFor(e)[m] = LineFor(e, m)

\* C20 as amended: in download_match, every match key that is processed
\* produces exactly one output line, in match-key order, and a match whose
\* fetch fails with an HTTP error is written as a line with zebra null rather
\* than omitted; but the match keys of an event are processed only up to the
\* (max_no_path_matches + 1)-th one when the fetches of all of these failed:
\* the remaining match keys of that event produce no line, so the number of
\* lines written for an event equals the number of its match keys only if
\* the event has at most max_no_path_matches + 1 match keys or one of its
\* first max_no_path_matches + 1 fetches succeeds.
C20_ProcessedKeysWrittenAmended ==
    Downloaded =>
        /\ \A e \in DOMAIN EventList :
              /\ Len(WrittenFor(e)) = Processed(e)
              /\ \A m \in DOMAIN WrittenFor(e) : WrittenFor(e)[m] = LineFor(e, m)
              /\ (Len(WrittenFor(e)) = Len(tba[e])) <=>
                    \/ Len(tba[e]) <= max_no_path_matches + 1
                    \/ \E m \in 1..(max_no_path_matches + 1) : tba[e][m] = "ok"
        /\ \A i, j \in DOMAIN zfile :
              (i < j /\ zfile[i].event = EventList[2]) =>
                  zfile[j].event = EventList[2]

C20_Witness ==
    /\ Downloaded
    /\ max_no_path_matches = 1
    /\ Len(tba[1]) = 3
    /\ LeadingFailures(1, 2)
    /\ Len(WrittenFor(1)) = 2
    /\ Len(tba[2]) = 3
    /\ tba[2][2] = "ok" /\ tba[2][3] = "no_zebra"
    /\ Len(WrittenFor(2)) = 3
    /\ WrittenFor(2)[3].zebra = {}

\* the fetch of match key number m of event number e fails with an HTTP error
Fails(e, m) == tba[e][m] # "ok"

\* the number of consecutive failures of event number e that end with match
\* key number m
FailuresEndingAt(e, m) ==
    LET last_ok == {k \in 1..m : ~ Fails(e, k)}
    IN  IF last_ok = {} THEN m
        ELSE m - (CHOOSE k \in last_ok : \A j \in last_ok : j <= k)

\* C22 (the steps): the loop over the match keys of an event is left with
\* match keys remaining or at the last key, i.e. the event is abandoned,
\* exactly when the fetch of the current match key fails while no match of
\* that event has yet succeeded and the number of consecutive failures in the
\* event has become strictly greater than max_no_path_matches; the current
\* match key has its line written in either case.
C22_AbandonStep ==
    (pc = "dl_match" /\ dl.m <= Len(tba[dl.ev])) =>
        /\ Len(zfile') = Len(zfile) + 1
        /\ (pc' = "dl_event") <=>
              /\ Fails(dl.ev, dl.m)
              /\ \A k \in 1..(dl.m - 1) : Fails(dl.ev, k)
              /\ FailuresEndingAt(dl.ev, dl.m) > max_no_path_matches

\* C22 (the outcome): an event of which match keys produced no line had at
\* least max_no_path_matches matches checked, all of which failed, and once
\* any match of the event has yielded path data every remaining match key of
\* the event produces a line.
C22_AbandonOutcome ==
    Downloaded =>
        \A e \in DOMAIN EventList :
            /\ (Len(WrittenFor(e)) < Len(tba[e])) =>
                  /\ Len(WrittenFor(e)) >= max_no_path_matches
                  /\ Len(WrittenFor(e)) = max_no_path_matches + 1
                  /\ \A m \in 1..Len(WrittenFor(e)) : Fails(e, m)
            /\ (\E m \in 1..Len(WrittenFor(e)) : ~ Fails(e, m)) =>
                  Len(WrittenFor(e)) = Len(tba[e])

\* C22: download_match abandons an event (writes no line for its remaining
\* match keys) exactly when a fetch fails while no match of that event has
\* yet succeeded and the number of consecutive failures in the event has
\* become strictly greater than max_no_path_matches; so at least
\* max_no_path_matches matches are checked before an event is skipped, and
\* once any match of the event has yielded path data every remaining match
\* key of the event produces a line.
C22_AbandonExactlyWhen == [][C22_AbandonStep]_vars /\ []C22_AbandonOutcome

C22_Witness ==
    /\ pc = "dl_event"
    /\ max_no_path_matches = 1
    /\ dl.ev = 1
    /\ Len(tba[1]) = 3
    /\ dl.m = 2
    /\ tba[1][3] = "ok"
    /\ Len(zfile) = 2
    /\ zfile[2].zebra = {}

----------------------------------------------------------------------------
(* Claims about filter_by_event, stated on the input lines ifile, the        *)
(* argument event_key and the lines ofile written.                           *)

Filtered == pc = "filtered"

InputAllJson == \A i \in DOMAIN ifile : ifile[i].kind = "json"

----------------------------------------------------------------------------
(* Claims about the viewer, stated on the attributes of the viewer and of    *)
(* its widgets.                                                              *)

Viewing == pc = "viewing"

AllActive == viewer.active = <<0>>

SpanActive == viewer.active = <<1>>

RangeActive == viewer.active = <<2>>

\* C23: in the viewer, after the time-select-type callback (and any callbacks
\* re-triggered by its own assignment to 'active') has finished, for any
\* sequence of user clicks on the All / Span / Range buttons starting from
\* active=[0], exactly one option is active; the range slider is visible iff
\* Range is active, and the span slider and span-length spinner are visible
\* iff Span is active.
C23_OneOptionActive ==
    Viewing =>
        /\ Len(viewer.active) = 1
        /\ viewer.active[1] \in {0, 1, 2}
        /\ viewer.range_visible <=> RangeActive
        /\ viewer.span_visible <=> SpanActive
        /\ viewer.spinner_visible <=> SpanActive

C23_Witness ==
    /\ Viewing
    /\ RangeActive
    /\ viewer.range_visible
    /\ ~ viewer.span_visible
    /\ viewer.range_value = <<0, 160>>
    /\ viewer.err = "ok"

\* C24: in every reachable viewer state in which 'All' is the active
\* time-select option, including the initial state, the plotted window is the
\* whole match: start_time = 0 and end_time = 160 seconds (the full extent of
\* the range slider).
C24_AllIsWholeMatch ==
    (Viewing /\ AllActive) =>
        /\ viewer.start_time = 0
        /\ viewer.end_time = 160

\* the keys of the matches listed for event e and level l, computed from the
\* data
ListedFor(e, l) ==
    {vdata[i].match : i \in {k \in DOMAIN vdata :
        vdata[k].event = e /\ KeyParts[vdata[k].match].level = l}}

\* C26: after any sequence of event-selector and level-selector callbacks in
\* the viewer, completed or aborted by an exception, the selected match
\* (self.match and match_selector.value) is one of the matches listed in
\* level_matches for the currently stored event and level; in particular
\* selecting an event/level combination that has no match with tracking data
\* does not leave event or level updated while the selected match is stale.
C26_SelectedMatchListed ==
    Viewing =>
        /\ viewer.match = viewer.match_value
        /\ \E i \in DOMAIN viewer.level_matches :
              viewer.level_matches[i][1] = viewer.match
        /\ viewer.match \in ListedFor(viewer.event, viewer.level)

\* a step of one of the time widgets
TimeWidgetCallback ==
    \/ ClickTimeSelect
    \/ MoveRangeSlider
    \/ MoveSpanSlider
    \/ ChangeSpanLength

\* C27: after any sequence of time-widget callbacks (range slider with any
\* value (a, b) of its range 0..160 with a <= b, span slider with any value of
\* its range 0..150, span-length spinner with any value in 5..55, time-select
\* buttons), start_time < end_time holds, so the slice
\* paths[start_time*10 : end_time*10] whose last element update_datasources
\* takes as the robot position is non-empty for a non-empty path and
\* update_datasources does not fail.
C27_WindowNotEmpty ==
    [][TimeWidgetCallback =>
          /\ viewer'.start_time < viewer'.end_time
          /\ viewer'.err # "IndexError"]_vars

====
